---- MODULE Spec2Model ----
(***************************************************************************)
(* State-machine model of the CareerNinja LearnTube backend:               *)
(*   backend/memory.py   the Chroma-backed per-user memory store           *)
(*   backend/scraper.py  the Apify profile fetcher                         *)
(*   backend/agents.py   analyze_profile and chat_agent                    *)
(*   backend/app.py      the /analyze and /chat routes                     *)
(* External services (Chroma, the embedding API, the completion API, the   *)
(* scraping actor) are modelled by their outcome: each call an operation   *)
(* makes succeeds or raises, chosen nondeterministically per call.         *)
(***************************************************************************)
EXTENDS Integers, Sequences, FiniteSets, TLC

VARIABLES
    client,          \* agents.client is not None (completion client initialised)
    chroma_client,   \* memory._client is not None (store backend available)
    openai_client,   \* memory._openai_client is not None (embedding client)
    apify_token,     \* scraper.APIFY_API_TOKEN is set
    collections,     \* the store: user -> sequence of records, for existing partitions
    clock,           \* time.time(), in ticks
    pc,              \* position of the call in flight ("idle" when none)
    call,            \* operation and arguments of the current / last call
    loc,             \* local variables of the current / last call
    ret,             \* outcome of the last finished call
    http,            \* status code answered by the last route call (0: none)
    log              \* external calls issued by the last step, in order

vars == <<client, chroma_client, openai_client, apify_token, collections,
          clock, pc, call, loc, ret, http, log>>

config == <<client, chroma_client, openai_client, apify_token>>

-----------------------------------------------------------------------------
(* Bounds of the model *)

\* no new call starts, and idle time does not pass, once the clock reaches it
MaxClock == 1
\* save_interaction is called directly only while the store holds fewer records
MaxRecords == 2

(* Program constants *)

\* abs(hash(text)) % (10**8)
HashMod == 100000000
\* analyze_profile: build_memory_context(..., top_k=6)
AnalyzeTopK == 6
\* chat_agent: build_memory_context(..., top_k=8)
ChatTopK == 8
\* app.py: HTTPException(status_code=500)
ServerError == 500
\* FastAPI's status of a route that returns
StatusOK == 200

-----------------------------------------------------------------------------
(* Values *)

Users == {"u1", "anon"}

\* Python's None where a string is expected
NoneStr == "<None>"

\* text.strip(): the texts the model uses carry whitespace only at their ends
Blank == {"", " ", "  "}

Strip(text) ==
    IF text \in Blank THEN ""
    ELSE IF text = " hi " THEN "hi"
    ELSE IF text = " ok " THEN "ok"
    ELSE text

-----------------------------------------------------------------------------
(* backend/memory.py *)

_collection_name(user_id) == "learn_tube_" \o user_id

Call(name, ok) == [call |-> name, ok |-> ok]

\* the partition named name exists in the store
Exists(cols, user_id) == user_id \in DOMAIN cols

Created(cols, user_id) ==
    IF Exists(cols, user_id) THEN cols ELSE cols @@ (user_id :> <<>>)

\* outcomes of the store calls of one ensure_collection: "ok": none fails;
\* "retry": get_collection and the first create_collection fail; "raise":
\* all three fail. get_collection also raises when the partition does not
\* exist.
EnsureOutcomes == {"ok", "retry", "raise"}

ensure_collection(cols, user_id, ens) ==
    IF ~chroma_client
    THEN [raised |-> TRUE, cols |-> cols, log |-> <<>>]
    ELSE IF Exists(cols, user_id) /\ ens = "ok"
    THEN [raised |-> FALSE, cols |-> cols,
          log |-> <<Call("get_collection", TRUE)>>]
    ELSE IF ens = "ok"
    THEN [raised |-> FALSE, cols |-> Created(cols, user_id),
          log |-> <<Call("get_collection", FALSE), Call("create_collection", TRUE)>>]
    ELSE IF ens = "retry"
    THEN [raised |-> FALSE, cols |-> Created(cols, user_id),
          log |-> <<Call("get_collection", FALSE), Call("create_collection", FALSE),
                    Call("create_collection", TRUE)>>]
    ELSE [raised |-> TRUE, cols |-> cols,
          log |-> <<Call("get_collection", FALSE), Call("create_collection", FALSE),
                    Call("create_collection", FALSE)>>]

\* the vector the embedding service returns for a text
Embed(text) == 1 + Len(text)

\* make_embedding returns [0.0] for a blank text without calling the service
ZeroEmbedding == 0

\* embOk: the embeddings.create call succeeds
make_embedding(text, clk, embOk) ==
    IF ~openai_client
    THEN [raised |-> TRUE, emb |-> ZeroEmbedding, clock |-> clk, log |-> <<>>]
    ELSE IF Strip(text) = ""
    THEN [raised |-> FALSE, emb |-> ZeroEmbedding, clock |-> clk, log |-> <<>>]
    ELSE [raised |-> ~embOk,
          emb |-> IF embOk THEN Embed(Strip(text)) ELSE ZeroEmbedding,
          clock |-> clk + 1,      \* time.sleep(1.0)
          log |-> <<Call("embeddings.create", embOk)>>]

Hash(text) == Len(text) % HashMod

\* f"{int(time.time()*1000)}-{abs(hash(text)) % (10**8)}"
GenerateId(clk, text) == <<clk, Hash(text)>>

NoId == <<>>

Ids(records) == {records[i].id : i \in DOMAIN records}

Record(id, text, metadata, emb) ==
    [id |-> id, document |-> text, metadata |-> metadata, embedding |-> emb]

\* collection.add: o.add = FALSE makes the store raise; adding an id the
\* collection already holds either raises (o.dup = "raise") or is dropped
\* silently (o.dup = "ignore"), depending on the store's version.
CollectionAdd(records, rec, o) ==
    IF ~o.add THEN [raised |-> TRUE, records |-> records]
    ELSE IF rec.id \in Ids(records)
    THEN [raised |-> (o.dup = "raise"), records |-> records]
    ELSE [raised |-> FALSE, records |-> Append(records, rec)]

\* outcomes of the external calls of one save_interaction; a field that is
\* not read (the call it decides is not reached) keeps one value
\* save_interaction with the earlier nested recovery: when the embedding
\* fails the document is stored without a vector
save_interaction_stores_unembedded(cols, clk, user_id, text, metadata, o) ==
    IF ~chroma_client
    THEN [raised |-> FALSE, status |-> "memory_disabled", id |-> NoId,
          cols |-> cols, clock |-> clk, log |-> <<>>]
    ELSE
      LET ec == ensure_collection(cols, user_id, o.ens) IN
      IF ec.raised
      THEN [raised |-> TRUE, status |-> "", id |-> NoId,
            cols |-> ec.cols, clock |-> clk, log |-> ec.log]
      ELSE
        LET id  == GenerateId(clk, text)
            me  == make_embedding(text, clk, o.emb)
            add == CollectionAdd(ec.cols[user_id],
                                 Record(id, text, metadata, me.emb), o)
        IN
        IF add.raised
        THEN [raised |-> FALSE, status |-> "failed_embedding", id |-> id,
              cols |-> ec.cols, clock |-> me.clock,
              log |-> ec.log \o me.log \o <<Call("collection.add", FALSE)>>]
        ELSE [raised |-> FALSE,
              status |-> IF me.raised THEN "failed_embedding" ELSE "saved",
              id |-> id,
              cols |-> [ec.cols EXCEPT ![user_id] = add.records],
              clock |-> me.clock,
              log |-> ec.log \o me.log \o <<Call("collection.add", TRUE)>>]

\* save_interaction without the check of the store client
save_interaction_unchecked(cols, clk, user_id, text, metadata, o) ==
    LET ec == ensure_collection(cols, user_id, o.ens) IN
    [raised |-> TRUE, status |-> "", id |-> NoId,
     cols |-> ec.cols, clock |-> clk, log |-> ec.log]

SaveOracles ==
    {o \in [ens : EnsureOutcomes, emb : BOOLEAN, add : BOOLEAN, dup : {"raise", "ignore"}] :
        /\ o.ens = "raise" => o.emb
        /\ ~o.emb => o.add
        /\ ~o.add => o.dup = "raise"}

save_interaction(cols, clk, user_id, text, metadata, o) ==
    IF ~chroma_client
    THEN [raised |-> FALSE, status |-> "memory_disabled", id |-> NoId,
          cols |-> cols, clock |-> clk, log |-> <<>>]
    ELSE
      LET ec == ensure_collection(cols, user_id, o.ens) IN
      IF ec.raised
      THEN [raised |-> TRUE, status |-> "", id |-> NoId,
            cols |-> ec.cols, clock |-> clk, log |-> ec.log]
      ELSE
        LET id  == GenerateId(clk, text)
            me  == make_embedding(text, clk, o.emb)
            add == CollectionAdd(ec.cols[user_id],
                                 Record(id, text, metadata, me.emb), o)
        IN
        IF me.raised
        THEN [raised |-> FALSE, status |-> "failed_embedding", id |-> id,
              cols |-> ec.cols, clock |-> me.clock, log |-> ec.log \o me.log]
        ELSE IF add.raised
        THEN [raised |-> FALSE, status |-> "failed_embedding", id |-> id,
              cols |-> ec.cols, clock |-> me.clock,
              log |-> ec.log \o me.log \o <<Call("collection.add", FALSE)>>]
        ELSE [raised |-> FALSE, status |-> "saved", id |-> id,
              cols |-> [ec.cols EXCEPT ![user_id] = add.records],
              clock |-> me.clock,
              log |-> ec.log \o me.log \o <<Call("collection.add", TRUE)>>]

Min(a, b) == IF a < b THEN a ELSE b

\* collection.get(limit=limit): the first limit records, in the store's order
CollectionGet(records, limit) == SubSeq(records, 1, Min(limit, Len(records)))

Doc(rec) == [id |-> rec.id, document |-> rec.document, metadata |-> rec.metadata]

\* distance None is <<>>, a known distance d is <<d>>
NoDistance == <<>>

DocWithDistance(rec, dist) ==
    [id |-> rec.id, document |-> rec.document, metadata |-> rec.metadata,
     distance |-> dist]

RecentOracles == {o \in [ens : EnsureOutcomes, get : BOOLEAN] : o.ens = "raise" => o.get}

get_recent_memory(cols, user_id, limit, o) ==
    IF ~chroma_client
    THEN [raised |-> FALSE, value |-> <<>>, cols |-> cols, log |-> <<>>]
    ELSE
      LET ec == ensure_collection(cols, user_id, o.ens) IN
      IF ec.raised
      THEN [raised |-> TRUE, value |-> <<>>, cols |-> ec.cols, log |-> ec.log]
      ELSE IF ~o.get
      THEN [raised |-> FALSE, value |-> <<>>, cols |-> ec.cols,
            log |-> ec.log \o <<Call("collection.get", FALSE)>>]
      ELSE
        LET got == CollectionGet(ec.cols[user_id], limit) IN
        [raised |-> FALSE,
         value |-> [i \in DOMAIN got |-> Doc(got[i])],
         cols |-> ec.cols,
         log |-> ec.log \o <<Call("collection.get", TRUE)>>]

Abs(n) == IF n < 0 THEN -n ELSE n

Distance(a, b) == Abs(a - b)

\* position of the record nearest to q among the positions in left
\* (the earliest of the nearest ones)
NearestPos(records, q, left) ==
    CHOOSE i \in left :
        \A j \in left :
            \/ Distance(records[i].embedding, q) < Distance(records[j].embedding, q)
            \/ /\ Distance(records[i].embedding, q) = Distance(records[j].embedding, q)
               /\ i <= j

RECURSIVE Nearest(_, _, _, _)
\* collection.query(n_results=k): the k records nearest to q, nearest first
Nearest(records, q, left, k) ==
    IF k <= 0 \/ left = {} THEN <<>>
    ELSE LET i == NearestPos(records, q, left) IN
         <<DocWithDistance(records[i], <<Distance(records[i].embedding, q)>>)>>
            \o Nearest(records, q, left \ {i}, k - 1)

CollectionQuery(records, q, k) == Nearest(records, q, DOMAIN records, k)

RelevantOracles ==
    {o \in [ens : EnsureOutcomes, emb : BOOLEAN, query : BOOLEAN, get : BOOLEAN] :
        /\ o.ens = "raise" => o.emb
        /\ ~o.emb => o.query
        /\ (o.emb /\ o.query) => o.get}

\* get_relevant_memory whose fallback reads the whole space
get_relevant_memory_unbounded(cols, clk, user_id, query, top_k, o) ==
    IF ~chroma_client \/ query = ""
    THEN [raised |-> FALSE, value |-> <<>>, cols |-> cols, clock |-> clk,
          log |-> <<>>]
    ELSE
      LET ec == ensure_collection(cols, user_id, o.ens) IN
      IF ec.raised
      THEN [raised |-> TRUE, value |-> <<>>, cols |-> ec.cols, clock |-> clk,
            log |-> ec.log]
      ELSE
        LET me  == make_embedding(query, clk, o.emb)
            qOk == ~me.raised /\ o.query
            qLog == ec.log \o me.log
                    \o (IF me.raised THEN <<>>
                        ELSE <<Call("collection.query", o.query)>>)
            got == ec.cols[user_id]
        IN
        IF qOk
        THEN [raised |-> FALSE,
              value |-> CollectionQuery(ec.cols[user_id], me.emb, top_k),
              cols |-> ec.cols, clock |-> me.clock, log |-> qLog]
        ELSE [raised |-> FALSE,
              value |-> [i \in DOMAIN got |-> DocWithDistance(got[i], NoDistance)],
              cols |-> ec.cols, clock |-> me.clock,
              log |-> qLog \o <<Call("collection.get", TRUE)>>]

get_relevant_memory(cols, clk, user_id, query, top_k, o) ==
    IF ~chroma_client \/ query = ""
    THEN [raised |-> FALSE, value |-> <<>>, cols |-> cols, clock |-> clk,
          log |-> <<>>]
    ELSE
      LET ec == ensure_collection(cols, user_id, o.ens) IN
      IF ec.raised
      THEN [raised |-> TRUE, value |-> <<>>, cols |-> ec.cols, clock |-> clk,
            log |-> ec.log]
      ELSE
        LET me  == make_embedding(query, clk, o.emb)
            qOk == ~me.raised /\ o.query
            qLog == ec.log \o me.log
                    \o (IF me.raised THEN <<>>
                        ELSE <<Call("collection.query", o.query)>>)
            got == CollectionGet(ec.cols[user_id], top_k)
        IN
        IF qOk
        THEN [raised |-> FALSE,
              value |-> CollectionQuery(ec.cols[user_id], me.emb, top_k),
              cols |-> ec.cols, clock |-> me.clock, log |-> qLog]
        ELSE IF o.get
        THEN [raised |-> FALSE,
              value |-> [i \in DOMAIN got |-> DocWithDistance(got[i], NoDistance)],
              cols |-> ec.cols, clock |-> me.clock,
              log |-> qLog \o <<Call("collection.get", TRUE)>>]
        ELSE [raised |-> FALSE, value |-> <<>>, cols |-> ec.cols,
              clock |-> me.clock,
              log |-> qLog \o <<Call("collection.get", FALSE)>>]

\* json.dumps(metadata, ensure_ascii=False)
MetaStr(metadata) ==
    "{type: " \o metadata.type \o ", section: " \o metadata.section \o "}"

\* f"[MEMORY {i}] meta={meta_str}\n{document}\n"
Part(i, r) ==
    "[MEMORY " \o ToString(i) \o "] meta=" \o MetaStr(r.metadata) \o "\n"
        \o r.document \o "\n"

RECURSIVE Join(_, _)
\* sep.join(parts)
Join(sep, parts) ==
    IF Len(parts) = 0 THEN ""
    ELSE IF Len(parts) = 1 THEN parts[1]
    ELSE parts[1] \o sep \o Join(sep, Tail(parts))

build_memory_context(cols, clk, user_id, query, top_k, o) ==
    LET rel == get_relevant_memory(cols, clk, user_id, query, top_k, o) IN
    [raised |-> rel.raised,
     value |-> IF rel.raised THEN ""
               ELSE Join("\n", [i \in DOMAIN rel.value |-> Part(i, rel.value[i])]),
     relevant |-> rel.value,
     cols |-> rel.cols, clock |-> rel.clock, log |-> rel.log]

-----------------------------------------------------------------------------
(* backend/scraper.py *)

Profile(name, headline, about) ==
    [name |-> name, headline |-> headline, about |-> about]

NoProfile == Profile("", "", "")

\* what the scraping service does with the request
ScrapeOutcomes == {"raise", "no_data", "data"}

\* outcome "raise": the actor call or the dataset read raises;
\* "no_data": the dataset holds no item; "data": it holds the profile.
scrape_profile(url, outcome) ==
    IF ~apify_token
    THEN [raised |-> TRUE, value |-> NoProfile, log |-> <<>>]
    ELSE IF outcome = "data"
    THEN [raised |-> FALSE, value |-> Profile("Jane", "Engineer", "About Jane"),
          log |-> <<Call("actor.call", TRUE)>>]
    ELSE IF outcome = "no_data"
    THEN [raised |-> FALSE,
          value |-> Profile("Apify Failed", "", "No data returned by Apify Actor."),
          log |-> <<Call("actor.call", TRUE)>>]
    ELSE [raised |-> FALSE,
          value |-> Profile("Apify Error", "error", "Check Apify logs or credits."),
          log |-> <<Call("actor.call", FALSE)>>]

-----------------------------------------------------------------------------
(* backend/agents.py: parsing and normalising the model output *)

\* a JSON value as json.loads returns it: its Python type and, for a number
\* or a boolean, its numeric value
Value(kind, num) == [kind |-> kind, num |-> num]

Null == Value("null", 0)
Missing == Value("missing", 0)

\* kinds for which isinstance(v, (int, float)) holds: bool is a subclass of
\* int; NaN and the infinities are floats; "bigint" is an int beyond the
\* range of float
IsIntOrFloat(v) == v.kind \in {"int", "float", "bool", "nan", "inf", "-inf", "bigint"}

\* the JSON types a reader calls numbers
IsJsonNumber(v) == v.kind \in {"int", "float", "nan", "inf", "-inf", "bigint"}

Sections(isdict, items) == [isdict |-> isdict, items |-> items]

EmptySections == Sections(TRUE, <<>>)

Item(key, kind, text) == [key |-> key, kind |-> kind, text |-> text]

Object(score, recs, sections) ==
    [match_score |-> score, recommendations |-> recs, rewritten_sections |-> sections]

\* the model output: whether it holds a "{", a "}", whether the text from the
\* first "{" to the last "}" is valid JSON, and the object it then denotes
Text(open, close, valid, obj) ==
    [open |-> open, close |-> close, valid |-> valid, obj |-> obj]

FallbackObject == Object(Null, <<>>, EmptySections)

NoText == Text(FALSE, FALSE, FALSE, FallbackObject)

_extract_structured_from_model(text) ==
    IF ~text.open THEN FallbackObject          \* text.index("{") raises
    ELSE IF ~text.close THEN FallbackObject    \* text.rindex("}") raises
    ELSE IF ~text.valid THEN FallbackObject    \* json.loads raises
    ELSE text.obj

ExtractFailed(text) == ~(text.open /\ text.close /\ text.valid)

\* analyze_profile, "Normalize fields with fallbacks"
NormalizeScore(v) ==
    IF IsIntOrFloat(v)
    THEN IF v.kind = "bigint" THEN Null               \* float(v): OverflowError
         ELSE IF v.kind = "nan" THEN Value("nan", 0)  \* nan < 0, nan > 100: False
         ELSE IF v.kind = "-inf" THEN Value("float", 0)
         ELSE IF v.kind = "inf" THEN Value("float", 100)
         ELSE IF v.num < 0 THEN Value("float", 0)
         ELSE IF v.num > 100 THEN Value("float", 100)
         ELSE Value("float", v.num)
    ELSE Null

\* str(match_score)
ScoreStr(v) ==
    IF v.kind = "null" THEN "None"
    ELSE IF v.kind = "nan" THEN "nan"
    ELSE ToString(v.num) \o ".0"

\* str(recommendations)
RecsStr(recs) == "[" \o Join(", ", recs) \o "]"

\* x is None or empty
Falsy(s) == s \in {NoneStr, ""}

Or(s, default) == IF Falsy(s) THEN default ELSE s

Metadata(type, section, nulls) ==
    [type |-> type, section |-> section, nulls |-> nulls]

RequestText(url, target_job) ==
    "Requested analysis for URL: " \o url \o ", target_job: " \o Or(target_job, "none")

ResultText(url, score, recs) ==
    "Analysis result for " \o url \o ": score=" \o ScoreStr(score)
        \o "; recs=" \o RecsStr(recs)

RewrittenText(item) == "rewritten_" \o item.key \o ": " \o item.text

UnavailableReply ==
    "I'm sorry, the AI service is currently unavailable due to an initialization error."

ApologyReply ==
    "I'm sorry, I seem to be having trouble processing your request right now. Please try again later."

BetterQuery(message) ==
    "Based on the user's most recent profile analysis and the message: " \o message
        \o ". Focus on the last target job and match score."

-----------------------------------------------------------------------------
(* State of a call *)

Result(profile, text, score, recs, sections) ==
    [profile |-> profile, analysis_text |-> text, match_score |-> score,
     recommendations |-> recs, rewritten_sections |-> sections]

NoResult == Result(NoProfile, NoText, Null, <<>>, EmptySections)

\* outcome of a call: raised, or returned with the status (save_interaction),
\* the text (build_memory_context, chat_agent), the documents
\* (get_recent_memory, get_relevant_memory) or the result (analyze_profile)
Ret(op, raised, status, id, text, docs, result) ==
    [op |-> op, raised |-> raised, status |-> status, id |-> id, text |-> text,
     docs |-> docs, result |-> result]

NoRet == Ret("", FALSE, "", NoId, "", <<>>, NoResult)

Raised(op) == Ret(op, TRUE, "", NoId, "", <<>>, NoResult)

Args(op, user_id, url, target_job, text, top_k) ==
    [op |-> op, user_id |-> user_id, linkedin_url |-> url,
     target_job |-> target_job, text |-> text, top_k |-> top_k]

NoArgs == Args("", "", "", NoneStr, "", 0)

EmptyLoc ==
    [profile |-> NoProfile, memory_context |-> "", analysis_text |-> NoText,
     match_score |-> Null, recommendations |-> <<>>, rewritten |-> EmptySections,
     todo |-> <<>>, assistant_reply |-> "", fetches |-> 0, completions |-> 0,
     failed |-> {}]

\* a store or embedding call of the step failed for another reason than the
\* partition not existing yet
LogFailed(l, cols, user_id) ==
    \E i \in DOMAIN l :
        /\ ~l[i].ok
        /\ ~(l[i].call = "get_collection" /\ i = 1 /\ ~Exists(cols, user_id))

\* the step's memory call did not do its work
MemoryFailed(r, cols, user_id) ==
    r.raised \/ ~chroma_client \/ ~openai_client \/ LogFailed(r.log, cols, user_id)

Mark(failed, step, bad) == IF bad THEN failed \cup {step} ELSE failed

Init ==
    /\ client \in BOOLEAN
    /\ chroma_client \in BOOLEAN
    /\ openai_client \in BOOLEAN
    /\ apify_token \in BOOLEAN
    /\ collections = <<>>
    /\ clock = 0
    /\ pc = "idle"
    /\ call = NoArgs
    /\ loc = EmptyLoc
    /\ ret = NoRet
    /\ http = 0
    /\ log = <<>>

CanStart == pc = "idle" /\ clock < MaxClock

\* time passes between two calls (within a call the clock advances by the
\* sleeps of make_embedding, the schedule under which generated ids are closest)
Tick ==
    /\ CanStart
    /\ clock' = clock + 1
    /\ UNCHANGED <<config, collections, pc, call, loc, ret, http, log>>

-----------------------------------------------------------------------------
(* Calls of the memory API *)

\* the memory API is called for one user: a call touches only the space of
\* its user_id
MemoryUsers == {"u1"}
MemoryTexts == {" ", "  ", "hi"}
MemoryQueries == {"", "hi"}
TopKs == 0..1

RecordsOf(cols, user_id) == IF Exists(cols, user_id) THEN cols[user_id] ELSE <<>>

RECURSIVE Total(_, _)
\* number of records in the spaces of users
Total(cols, users) ==
    IF users = {} THEN 0
    ELSE LET u == CHOOSE x \in users : TRUE IN
         Len(RecordsOf(cols, u)) + Total(cols, users \ {u})

SaveInteractionCall(user_id, text, o) ==
    /\ CanStart
    /\ Total(collections, Users) < MaxRecords
    /\ LET r == save_interaction(collections, clock, user_id, text,
                                 Metadata("note", "", FALSE), o)
       IN /\ collections' = r.cols
          /\ clock' = r.clock
          /\ log' = r.log
          /\ ret' = IF r.raised THEN Raised("save_interaction")
                    ELSE Ret("save_interaction", FALSE, r.status, r.id, "", <<>>, NoResult)
    /\ call' = Args("save_interaction", user_id, "", NoneStr, text, 0)
    /\ loc' = EmptyLoc
    /\ http' = 0
    /\ UNCHANGED <<config, pc>>

GetRecentMemoryCall(user_id, limit, o) ==
    /\ CanStart
    /\ LET r == get_recent_memory(collections, user_id, limit, o)
       IN /\ collections' = r.cols
          /\ log' = r.log
          /\ ret' = IF r.raised THEN Raised("get_recent_memory")
                    ELSE Ret("get_recent_memory", FALSE, "", NoId, "", r.value, NoResult)
    /\ call' = Args("get_recent_memory", user_id, "", NoneStr, "", limit)
    /\ loc' = EmptyLoc
    /\ http' = 0
    /\ UNCHANGED <<config, clock, pc>>

GetRelevantMemoryCall(user_id, query, top_k, o) ==
    /\ CanStart
    /\ LET r == get_relevant_memory(collections, clock, user_id, query, top_k, o)
       IN /\ collections' = r.cols
          /\ clock' = r.clock
          /\ log' = r.log
          /\ ret' = IF r.raised THEN Raised("get_relevant_memory")
                    ELSE Ret("get_relevant_memory", FALSE, "", NoId, "", r.value, NoResult)
    /\ call' = Args("get_relevant_memory", user_id, "", NoneStr, query, top_k)
    /\ loc' = EmptyLoc
    /\ http' = 0
    /\ UNCHANGED <<config, pc>>

BuildMemoryContextCall(user_id, query, top_k, o) ==
    /\ CanStart
    /\ LET r == build_memory_context(collections, clock, user_id, query, top_k, o)
       IN /\ collections' = r.cols
          /\ clock' = r.clock
          /\ log' = r.log
          /\ ret' = IF r.raised THEN Raised("build_memory_context")
                    ELSE Ret("build_memory_context", FALSE, "", NoId, r.value, r.relevant,
                             NoResult)
    /\ call' = Args("build_memory_context", user_id, "", NoneStr, query, top_k)
    /\ loc' = EmptyLoc
    /\ http' = 0
    /\ UNCHANGED <<config, pc>>

-----------------------------------------------------------------------------
(* backend/app.py POST /analyze and backend/agents.py analyze_profile *)

AnalyzeRequest(url, target_job_title, user_id) ==
    [linkedin_url |-> url, target_job_title |-> target_job_title,
     user_id |-> user_id]

AnalyzeRequests ==
    {AnalyzeRequest("url", NoneStr, NoneStr), AnalyzeRequest("url", "PM", "u1")}

\* outputs of the completion service for an analysis
GoodObject(sections) == Object(Value("int", 50), <<"rec">>, sections)

AnalysisTexts ==
    { Text(FALSE, FALSE, FALSE, FallbackObject),
      Text(TRUE, TRUE, FALSE, FallbackObject),
      Text(TRUE, TRUE, TRUE, Object(Value("bool", 1), <<"rec">>, Sections(FALSE, <<>>))),
      Text(TRUE, TRUE, TRUE, GoodObject(Sections(TRUE, <<Item("headline", "str", "H")>>))),
      Text(TRUE, TRUE, TRUE,
           GoodObject(Sections(TRUE, <<Item("headline", "str", "H"),
                                       Item("experience", "list", "a\nb")>>))),
      Text(TRUE, TRUE, TRUE,
           GoodObject(Sections(TRUE, <<Item("experience", "badlist", ""),
                                       Item("about", "str", "A")>>))) }

CompletionOutcomes == {"raise", "no_content", "ok"}

\* POST /analyze calls analyze_profile(req.linkedin_url, req.target_job_title,
\* req.user_id or "anon")
AnalyzeStart(req) ==
    /\ CanStart
    /\ pc' = "scrape"
    /\ call' = Args("analyze_profile", Or(req.user_id, "anon"), req.linkedin_url,
                    req.target_job_title, "", AnalyzeTopK)
    /\ loc' = EmptyLoc
    /\ ret' = NoRet
    /\ http' = 0
    /\ log' = <<>>
    /\ UNCHANGED <<config, collections, clock>>

\* the call raises: the route answers 500
Abort(op) ==
    /\ pc' = "idle"
    /\ ret' = Raised(op)
    /\ http' = ServerError

\* step 1
AnalyzeScrape(outcome) ==
    /\ pc = "scrape"
    /\ LET r == scrape_profile(call.linkedin_url, outcome) IN
       /\ log' = r.log
       /\ IF r.raised
          THEN /\ Abort("analyze_profile")
               /\ loc' = [loc EXCEPT !.failed = @ \cup {"scrape"}]
          ELSE /\ pc' = "save_request"
               /\ loc' = [loc EXCEPT !.profile = r.value, !.fetches = @ + 1]
               /\ UNCHANGED <<ret, http>>
    /\ UNCHANGED <<config, collections, clock, call>>

\* step 3; an exception of save_interaction is swallowed
AnalyzeSaveRequest(o) ==
    /\ pc = "save_request"
    /\ LET r == save_interaction(collections, clock, call.user_id,
                    RequestText(call.linkedin_url, call.target_job),
                    Metadata("analysis_request", "", call.target_job = NoneStr), o)
       IN /\ collections' = r.cols
          /\ clock' = r.clock
          /\ log' = r.log
          /\ loc' = [loc EXCEPT !.failed =
                        Mark(@, "save_request",
                             MemoryFailed(r, collections, call.user_id))]
    /\ pc' = "context"
    /\ UNCHANGED <<config, call, ret, http>>

\* step 4; an exception of build_memory_context gives the empty context
AnalyzeContext(o) ==
    /\ pc = "context"
    /\ LET r == build_memory_context(collections, clock, call.user_id,
                    Or(call.target_job, "career profile"), AnalyzeTopK, o)
       IN /\ collections' = r.cols
          /\ clock' = r.clock
          /\ log' = r.log
          /\ loc' = [loc EXCEPT !.memory_context = IF r.raised THEN "" ELSE r.value,
                                !.failed = Mark(@, "context",
                                    MemoryFailed(r, collections, call.user_id))]
    /\ pc' = "completion"
    /\ UNCHANGED <<config, call, ret, http>>

\* the store without the last record of the user's space
WithoutLast(cols, user_id) ==
    IF Exists(cols, user_id) /\ Len(cols[user_id]) > 0
    THEN [cols EXCEPT ![user_id] = SubSeq(@, 1, Len(@) - 1)]
    ELSE cols

\* steps 6 and 7 with a rollback: an abort removes the record step 3 saved
AnalyzeCompletionRollsBack(outcome, text) ==
    /\ pc = "completion"
    /\ IF ~client
       THEN /\ Abort("analyze_profile")
            /\ log' = <<>>
            /\ loc' = [loc EXCEPT !.failed = @ \cup {"completion"}]
            /\ collections' = WithoutLast(collections, call.user_id)
       ELSE IF outcome # "ok"
       THEN /\ Abort("analyze_profile")
            /\ log' = <<Call("completions.create", outcome # "raise")>>
            /\ loc' = [loc EXCEPT !.completions = @ + 1,
                                  !.failed = @ \cup {"completion"}]
            /\ collections' = WithoutLast(collections, call.user_id)
       ELSE LET parsed == _extract_structured_from_model(text) IN
            /\ pc' = "save_result"
            /\ log' = <<Call("completions.create", TRUE)>>
            /\ loc' = [loc EXCEPT
                          !.completions = @ + 1,
                          !.analysis_text = text,
                          !.match_score = NormalizeScore(parsed.match_score),
                          !.recommendations = parsed.recommendations,
                          !.rewritten = parsed.rewritten_sections,
                          !.todo = IF parsed.rewritten_sections.isdict
                                   THEN parsed.rewritten_sections.items ELSE <<>>,
                          !.failed = Mark(@, "extract", ExtractFailed(text))]
            /\ UNCHANGED <<ret, http, collections>>
    /\ UNCHANGED <<config, clock, call>>

\* steps 6 and 7 and the normalisation of the fields
AnalyzeCompletion(outcome, text) ==
    /\ pc = "completion"
    /\ IF ~client
       THEN /\ Abort("analyze_profile")
            /\ log' = <<>>
            /\ loc' = [loc EXCEPT !.failed = @ \cup {"completion"}]
       ELSE IF outcome # "ok"
       THEN /\ Abort("analyze_profile")
            /\ log' = <<Call("completions.create", outcome # "raise")>>
            /\ loc' = [loc EXCEPT !.completions = @ + 1,
                                  !.failed = @ \cup {"completion"}]
       ELSE LET parsed == _extract_structured_from_model(text) IN
            /\ pc' = "save_result"
            /\ log' = <<Call("completions.create", TRUE)>>
            /\ loc' = [loc EXCEPT
                          !.completions = @ + 1,
                          !.analysis_text = text,
                          !.match_score = NormalizeScore(parsed.match_score),
                          !.recommendations = parsed.recommendations,
                          !.rewritten = parsed.rewritten_sections,
                          !.todo = IF parsed.rewritten_sections.isdict
                                   THEN parsed.rewritten_sections.items ELSE <<>>,
                          !.failed = Mark(@, "extract", ExtractFailed(text))]
            /\ UNCHANGED <<ret, http>>
    /\ UNCHANGED <<config, collections, clock, call>>

\* step 8 without its try: an exception of save_interaction aborts the call
AnalyzeSaveResultPropagates(o) ==
    /\ pc = "save_result"
    /\ LET r == save_interaction(collections, clock, call.user_id,
                    ResultText(call.linkedin_url, loc.match_score, loc.recommendations),
                    Metadata("analysis_result", "",
                             call.target_job = NoneStr \/ loc.match_score = Null), o)
       IN /\ collections' = r.cols
          /\ clock' = r.clock
          /\ log' = r.log
          /\ loc' = [loc EXCEPT !.failed =
                        Mark(@, "save_result",
                             MemoryFailed(r, collections, call.user_id))]
          /\ IF r.raised
             THEN Abort("analyze_profile")
             ELSE /\ pc' = IF loc.todo = <<>> THEN "return" ELSE "save_rewritten"
                  /\ UNCHANGED <<ret, http>>
    /\ UNCHANGED <<config, call>>

\* step 8, first save, with a failed save reported in the result: the score
\* is dropped when the record was not stored
AnalyzeSaveResultReported(o) ==
    /\ pc = "save_result"
    /\ LET r == save_interaction(collections, clock, call.user_id,
                    ResultText(call.linkedin_url, loc.match_score, loc.recommendations),
                    Metadata("analysis_result", "",
                             call.target_job = NoneStr \/ loc.match_score = Null), o)
       IN /\ collections' = r.cols
          /\ clock' = r.clock
          /\ log' = r.log
          /\ loc' = [loc EXCEPT
                        !.match_score = IF r.raised \/ r.status # "saved"
                                        THEN Null ELSE @,
                        !.failed = Mark(@, "save_result",
                                        MemoryFailed(r, collections, call.user_id))]
          /\ pc' = IF r.raised \/ loc.todo = <<>> THEN "return" ELSE "save_rewritten"
    /\ UNCHANGED <<config, call, ret, http>>

\* step 8, first save; an exception ends step 8
AnalyzeSaveResult(o) ==
    /\ pc = "save_result"
    /\ LET r == save_interaction(collections, clock, call.user_id,
                    ResultText(call.linkedin_url, loc.match_score, loc.recommendations),
                    Metadata("analysis_result", "",
                             call.target_job = NoneStr \/ loc.match_score = Null), o)
       IN /\ collections' = r.cols
          /\ clock' = r.clock
          /\ log' = r.log
          /\ loc' = [loc EXCEPT !.failed =
                        Mark(@, "save_result",
                             MemoryFailed(r, collections, call.user_id))]
          /\ pc' = IF r.raised \/ loc.todo = <<>> THEN "return" ELSE "save_rewritten"
    /\ UNCHANGED <<config, call, ret, http>>

\* step 8, the save of the next rewritten section; "\n".join(value) raises on
\* a list that holds a non-string, and an exception ends step 8
AnalyzeSaveRewritten(o) ==
    /\ pc = "save_rewritten"
    /\ LET item == Head(loc.todo)
           r == save_interaction(collections, clock, call.user_id,
                    RewrittenText(item),
                    Metadata("rewritten", item.key, call.target_job = NoneStr), o)
       IN IF item.kind = "badlist"
          THEN /\ pc' = "return"
               /\ log' = <<>>
               /\ loc' = [loc EXCEPT !.failed = @ \cup {"join"}]
               /\ UNCHANGED <<collections, clock>>
          ELSE /\ collections' = r.cols
               /\ clock' = r.clock
               /\ log' = r.log
               /\ loc' = [loc EXCEPT
                             !.todo = Tail(@),
                             !.failed = Mark(@, "save_rewritten",
                                 MemoryFailed(r, collections, call.user_id))]
               /\ pc' = IF r.raised \/ Tail(loc.todo) = <<>>
                        THEN "return" ELSE "save_rewritten"
    /\ UNCHANGED <<config, call, ret, http>>

\* steps 9 and 10; the route answers the result
AnalyzeReturn ==
    /\ pc = "return"
    /\ call.op = "analyze_profile"
    /\ pc' = "idle"
    /\ ret' = Ret("analyze_profile", FALSE, "", NoId, "", <<>>,
                  Result(loc.profile, loc.analysis_text, loc.match_score,
                         loc.recommendations, loc.rewritten))
    /\ http' = StatusOK
    /\ log' = <<>>
    /\ UNCHANGED <<config, collections, clock, call, loc>>

-----------------------------------------------------------------------------
(* backend/app.py POST /chat and backend/agents.py chat_agent *)

ChatMessage(user_id, message) == [user_id |-> user_id, message |-> message]

ChatRequests == {ChatMessage("", ""), ChatMessage("u1", "hi")}

\* message.content of the completion service's answer to a chat
ChatContents == {" ok ", " "}

\* POST /chat calls chat_agent(req.user_id or "anon", req.message)
ChatStart(req) ==
    /\ CanStart
    /\ pc' = "chat_context"
    /\ call' = Args("chat_agent", Or(req.user_id, "anon"), "", NoneStr,
                    req.message, ChatTopK)
    /\ loc' = EmptyLoc
    /\ ret' = NoRet
    /\ http' = 0
    /\ log' = <<>>
    /\ UNCHANGED <<config, collections, clock>>

\* step 1 without its try: an exception of build_memory_context aborts
ChatContextPropagates(o) ==
    /\ pc = "chat_context"
    /\ LET r == build_memory_context(collections, clock, call.user_id,
                    BetterQuery(call.text), ChatTopK, o)
       IN /\ collections' = r.cols
          /\ clock' = r.clock
          /\ log' = r.log
          /\ loc' = [loc EXCEPT !.memory_context = IF r.raised THEN "" ELSE r.value,
                                !.failed = Mark(@, "context",
                                    MemoryFailed(r, collections, call.user_id))]
          /\ IF r.raised
             THEN Abort("chat_agent")
             ELSE /\ pc' = "chat_completion"
                  /\ UNCHANGED <<ret, http>>
    /\ UNCHANGED <<config, call>>

\* step 1; an exception of build_memory_context gives the empty context
ChatContext(o) ==
    /\ pc = "chat_context"
    /\ LET r == build_memory_context(collections, clock, call.user_id,
                    BetterQuery(call.text), ChatTopK, o)
       IN /\ collections' = r.cols
          /\ clock' = r.clock
          /\ log' = r.log
          /\ loc' = [loc EXCEPT !.memory_context = IF r.raised THEN "" ELSE r.value,
                                !.failed = Mark(@, "context",
                                    MemoryFailed(r, collections, call.user_id))]
    /\ pc' = "chat_completion"
    /\ UNCHANGED <<config, call, ret, http>>

\* step 3; without a client chat_agent returns at once
ChatCompletion(outcome, content) ==
    /\ pc = "chat_completion"
    /\ IF ~client
       THEN /\ pc' = "idle"
            /\ ret' = Ret("chat_agent", FALSE, "", NoId, UnavailableReply, <<>>, NoResult)
            /\ http' = StatusOK
            /\ log' = <<>>
            /\ loc' = [loc EXCEPT !.assistant_reply = UnavailableReply]
       ELSE /\ pc' = "chat_save_user"
            /\ log' = <<Call("completions.create", outcome # "raise")>>
            /\ loc' = [loc EXCEPT
                          !.completions = @ + 1,
                          !.assistant_reply = IF outcome = "ok" THEN Strip(content)
                                              ELSE ApologyReply,
                          !.failed = Mark(@, "completion", outcome # "ok")]
            /\ UNCHANGED <<ret, http>>
    /\ UNCHANGED <<config, collections, clock, call>>

\* step 4, the user's message; an exception ends step 4
ChatSaveUser(o) ==
    /\ pc = "chat_save_user"
    /\ LET r == save_interaction(collections, clock, call.user_id, call.text,
                                 Metadata("chat_user", "", FALSE), o)
       IN /\ collections' = r.cols
          /\ clock' = r.clock
          /\ log' = r.log
          /\ loc' = [loc EXCEPT !.failed =
                        Mark(@, "save_user",
                             MemoryFailed(r, collections, call.user_id))]
          /\ pc' = IF r.raised THEN "return" ELSE "chat_save_reply"
    /\ UNCHANGED <<config, call, ret, http>>

\* step 4 saving the reply only when the completion succeeded
ChatSaveReplyOnSuccess(o) ==
    /\ pc = "chat_save_reply"
    /\ LET r == IF "completion" \in loc.failed
                THEN [raised |-> FALSE, cols |-> collections, clock |-> clock,
                      log |-> <<>>]
                ELSE save_interaction(collections, clock, call.user_id,
                                      loc.assistant_reply,
                                      Metadata("chat_assistant", "", FALSE), o)
       IN /\ collections' = r.cols
          /\ clock' = r.clock
          /\ log' = r.log
          /\ loc' = [loc EXCEPT !.failed =
                        Mark(@, "save_reply",
                             MemoryFailed(r, collections, call.user_id))]
    /\ pc' = "return"
    /\ UNCHANGED <<config, call, ret, http>>

\* step 4, the reply
ChatSaveReply(o) ==
    /\ pc = "chat_save_reply"
    /\ LET r == save_interaction(collections, clock, call.user_id,
                                 loc.assistant_reply,
                                 Metadata("chat_assistant", "", FALSE), o)
       IN /\ collections' = r.cols
          /\ clock' = r.clock
          /\ log' = r.log
          /\ loc' = [loc EXCEPT !.failed =
                        Mark(@, "save_reply",
                             MemoryFailed(r, collections, call.user_id))]
    /\ pc' = "return"
    /\ UNCHANGED <<config, call, ret, http>>

\* step 5; the route answers the reply
ChatReturn ==
    /\ pc = "return"
    /\ call.op = "chat_agent"
    /\ pc' = "idle"
    /\ ret' = Ret("chat_agent", FALSE, "", NoId, loc.assistant_reply, <<>>, NoResult)
    /\ http' = StatusOK
    /\ log' = <<>>
    /\ UNCHANGED <<config, collections, clock, call, loc>>

-----------------------------------------------------------------------------
(* Specifications *)

MemoryNext ==
    \/ \E u \in MemoryUsers, t \in MemoryTexts, o \in SaveOracles :
          SaveInteractionCall(u, t, o)
    \/ \E u \in MemoryUsers, k \in TopKs, o \in RecentOracles :
          GetRecentMemoryCall(u, k, o)
    \/ \E u \in MemoryUsers, q \in MemoryQueries, k \in TopKs, o \in RelevantOracles :
          GetRelevantMemoryCall(u, q, k, o)
    \/ \E u \in MemoryUsers, q \in MemoryQueries, k \in TopKs, o \in RelevantOracles :
          BuildMemoryContextCall(u, q, k, o)

AnalyzeNext ==
    \/ \E req \in AnalyzeRequests : AnalyzeStart(req)
    \/ \E outcome \in ScrapeOutcomes : AnalyzeScrape(outcome)
    \/ \E o \in SaveOracles : AnalyzeSaveRequest(o)
    \/ \E o \in RelevantOracles : AnalyzeContext(o)
    \/ \E outcome \in CompletionOutcomes, text \in AnalysisTexts :
          AnalyzeCompletion(outcome, text)
    \/ \E o \in SaveOracles : AnalyzeSaveResult(o)
    \/ \E o \in SaveOracles : AnalyzeSaveRewritten(o)
    \/ AnalyzeReturn

ChatNext ==
    \/ \E req \in ChatRequests : ChatStart(req)
    \/ \E o \in RelevantOracles : ChatContext(o)
    \/ \E outcome \in CompletionOutcomes, content \in ChatContents :
          ChatCompletion(outcome, content)
    \/ \E o \in SaveOracles : ChatSaveUser(o)
    \/ \E o \in SaveOracles : ChatSaveReply(o)
    \/ ChatReturn

Next == Tick \/ MemoryNext \/ AnalyzeNext \/ ChatNext

Spec == Init /\ [][Next]_vars

\* the memory API alone, which reads neither the completion client nor the
\* scraping token
MemoryInit == Init /\ client /\ apify_token

MemorySpec == MemoryInit /\ [][Tick \/ MemoryNext]_vars

\* POST /analyze alone
AnalyzeSpec == Init /\ [][AnalyzeNext]_vars

\* POST /chat alone, which does not read the scraping token
ChatInit == Init /\ apify_token

ChatSpec == ChatInit /\ [][ChatNext]_vars

\* a request that arrives before any time has passed
FirstAnalyzeStart(req) == clock = 0 /\ AnalyzeStart(req)

FirstChatStart(req) == clock = 0 /\ ChatStart(req)

\* POST /analyze and POST /chat, one call at a time, the calls starting
\* before any time has passed
ServiceNext ==
    \/ \E req \in AnalyzeRequests : FirstAnalyzeStart(req)
    \/ \E outcome \in ScrapeOutcomes : AnalyzeScrape(outcome)
    \/ \E o \in SaveOracles : AnalyzeSaveRequest(o)
    \/ \E o \in RelevantOracles : AnalyzeContext(o)
    \/ \E outcome \in CompletionOutcomes, text \in AnalysisTexts :
          AnalyzeCompletion(outcome, text)
    \/ \E o \in SaveOracles : AnalyzeSaveResult(o)
    \/ \E o \in SaveOracles : AnalyzeSaveRewritten(o)
    \/ AnalyzeReturn
    \/ \E req \in ChatRequests : FirstChatStart(req)
    \/ \E o \in RelevantOracles : ChatContext(o)
    \/ \E outcome \in CompletionOutcomes, content \in ChatContents :
          ChatCompletion(outcome, content)
    \/ \E o \in SaveOracles : ChatSaveUser(o)
    \/ \E o \in SaveOracles : ChatSaveReply(o)
    \/ ChatReturn

ServiceSpec == Init /\ [][ServiceNext]_vars

\* the whole backend started without a store backend
DisabledInit == Init /\ ~chroma_client

DisabledSpec == DisabledInit /\ [][Next]_vars

-----------------------------------------------------------------------------
(* Properties *)

Range(f) == {f[i] : i \in DOMAIN f}

Finished(op) == pc = "idle" /\ ret.op = op /\ call.op = op

\* the profile fetch of the call in flight failed: no token, the scraping
\* call raised, or the service returned no data
FetchFailed ==
    \/ "scrape" \in loc.failed
    \/ loc.profile.name \in {"Apify Error", "Apify Failed"}

\* C1: every failure of the profile fetch aborts analyze_profile: the call
\* raises, /analyze answers 500, no completion request is issued and no
\* result is returned.
C1_FetchFailureAborts ==
    (call.op = "analyze_profile" /\ pc # "scrape" /\ FetchFailed)
        => /\ pc = "idle"
           /\ ret.raised
           /\ http = ServerError
           /\ loc.completions = 0

\* C2: only the fetch and the completion call abort analyze_profile: a call
\* that raised failed at one of them, no best-effort step ends the call, and a
\* call whose fetch and completion succeeded answers the aggregate result
\* whatever best-effort steps failed.
C2_OnlyFetchAndCompletionAbort ==
    call.op = "analyze_profile" =>
        /\ ret.raised => (pc = "idle" /\ loc.failed \cap {"scrape", "completion"} # {})
        /\ pc \in {"save_request", "context", "completion", "save_result",
                   "save_rewritten", "return"} => ~ret.raised /\ http = 0
        /\ (pc = "idle" /\ loc.failed \cap {"scrape", "completion"} = {}) =>
              /\ ~ret.raised
              /\ http = StatusOK
              /\ ret.result = Result(loc.profile, loc.analysis_text, loc.match_score,
                                     loc.recommendations, loc.rewritten)
              /\ loc.fetches = 1 /\ loc.completions = 1

\* C2 witness: the request save, the context build, the extraction and the
\* result save all failed and the result was returned
C2_Witness ==
    /\ Finished("analyze_profile")
    /\ ~ret.raised
    /\ {"save_request", "context", "extract", "save_result"} \subseteq loc.failed

\* C3: chat_agent never raises and /chat never answers 500, whatever the
\* context build, the completion service and the saves do; a finished call
\* returned a reply.
C3_ChatNeverFails ==
    call.op = "chat_agent" =>
        /\ ~ret.raised
        /\ http # ServerError
        /\ pc = "idle" =>
              /\ http = StatusOK
              /\ ret.op = "chat_agent"
              /\ ret.text = loc.assistant_reply
              /\ ret.text \in {UnavailableReply, ApologyReply}
                                \cup {Strip(c) : c \in ChatContents}

\* C3 witness: the context build, the completion call and the save of the
\* user's message all failed and a reply was returned
C3_Witness ==
    /\ Finished("chat_agent")
    /\ ~ret.raised
    /\ {"context", "completion", "save_user"} \subseteq loc.failed

\* no memory call of the call in flight failed
HealthyMemory ==
    /\ chroma_client
    /\ openai_client
    /\ loc.failed \cap {"context", "save_user", "save_reply", "save_request",
                        "save_result", "save_rewritten"} = {}

\* the last two records of the user's space are the message and the reply
PersistedExchange(user_id, message, reply) ==
    LET records == RecordsOf(collections, user_id)
        n == Len(records)
    IN /\ n >= 2
       /\ records[n - 1].document = message
       /\ records[n - 1].metadata.type = "chat_user"
       /\ records[n].document = reply
       /\ records[n].metadata.type = "chat_assistant"
       /\ records[n - 1].id # records[n].id

\* C4: when the completion call raises, chat_agent returns the fixed apology
\* and, with a healthy store and embedding service, has persisted the
\* message as chat_user and the apology as chat_assistant.
C4_ApologyPersisted ==
    (Finished("chat_agent") /\ "completion" \in loc.failed) =>
        /\ ret.text = ApologyReply
        /\ HealthyMemory => PersistedExchange(call.user_id, call.text, ApologyReply)

C4_Witness ==
    /\ Finished("chat_agent")
    /\ "completion" \in loc.failed
    /\ HealthyMemory
    /\ PersistedExchange(call.user_id, call.text, ApologyReply)

\* C5: every chat_agent call that returns a reply has, with a healthy store
\* and embedding service, persisted the message as chat_user and the returned
\* reply as chat_assistant, the user record first.
C5_EveryReplyPersisted ==
    (Finished("chat_agent") /\ ~ret.raised /\ HealthyMemory) =>
        PersistedExchange(call.user_id, call.text, ret.text)

\* the calls in l got the user's partition
EnsureOk(l) ==
    \/ Call("get_collection", TRUE) \in Range(l)
    \/ Call("create_collection", TRUE) \in Range(l)

\* make_embedding raised in the calls in l
EmbeddingFailed(l) ==
    \/ Call("embeddings.create", FALSE) \in Range(l)
    \/ ~openai_client /\ EnsureOk(l)

\* the step is a save_interaction call whose embedding failed
EmbeddingFailedSave ==
    /\ call'.op = "save_interaction"
    /\ pc' = "idle"
    /\ chroma_client
    /\ EmbeddingFailed(log')

AllFaultless == [ens |-> "ok", get |-> TRUE]

\* what get_recent_memory returns for the user from the store cols
Recent(cols, user_id) ==
    Range(get_recent_memory(cols, user_id, Len(RecordsOf(cols, user_id)),
                            AllFaultless).value)

\* C6: a save_interaction whose embedding fails does not raise, returns the
\* degraded status failed_embedding and leaves the records of every space as
\* they were, so get_recent_memory does not return the record.
C6_SaveAllOrNothing ==
    [][EmbeddingFailedSave =>
          /\ ~ret'.raised
          /\ ret'.status = "failed_embedding"
          /\ \A u \in Users : RecordsOf(collections', u) = RecordsOf(collections, u)
          /\ \A d \in Recent(collections', call'.user_id) :
                ~(d.id = ret'.id /\ d.document = call'.text)]_vars

C6_Witness ==
    /\ Finished("save_interaction")
    /\ chroma_client
    /\ EmbeddingFailed(log)
    /\ ret.status = "failed_embedding"
    /\ Len(RecordsOf(collections, call.user_id)) > 0

\* C7: without a store backend every memory operation is a no-op:
\* save_interaction returns without raising and creates nothing,
\* get_recent_memory and get_relevant_memory return the empty sequence,
\* build_memory_context returns the empty string, and analyze_profile and
\* chat_agent complete as they do otherwise.
C7_DisabledStoreNoOp ==
    ~chroma_client =>
        /\ collections = <<>>
        /\ ret.op = "save_interaction" => ~ret.raised /\ ret.status = "memory_disabled"
        /\ ret.op \in {"get_recent_memory", "get_relevant_memory"} =>
              ~ret.raised /\ ret.docs = <<>>
        /\ ret.op = "build_memory_context" => ~ret.raised /\ ret.text = ""
        /\ loc.memory_context = ""
        /\ Finished("analyze_profile") =>
              /\ ret.raised <=> loc.failed \cap {"scrape", "completion"} # {}
              /\ ~ret.raised =>
                    /\ http = StatusOK
                    /\ ret.result.match_score = loc.match_score
                    /\ ret.result.profile = loc.profile
        /\ Finished("chat_agent") =>
              /\ ~ret.raised
              /\ http = StatusOK
              /\ ret.text = loc.assistant_reply

C7_Witness ==
    /\ ~chroma_client
    /\ Finished("analyze_profile")
    /\ http = StatusOK
    /\ "save_result" \in loc.failed

\* C8: build_memory_context never raises, and it returns the empty string
\* whenever no record is retrieved.
C8_ContextNeverRaises ==
    ret.op = "build_memory_context" =>
        /\ ~ret.raised
        /\ ret.docs = <<>> => ret.text = ""

\* the last get_relevant_memory call fell back to the plain read
FellBack ==
    /\ Finished("get_relevant_memory")
    /\ chroma_client
    /\ call.text # ""
    /\ EmbeddingFailed(log) \/ Call("collection.query", FALSE) \in Range(log)

\* C9: when the query embedding or the similarity search fails,
\* get_relevant_memory does not raise and returns the first records of the
\* user's space, at most top_k of them, each with distance None; when the
\* fallback read fails too it returns the empty sequence.
C9_FallbackSlice ==
    FellBack =>
        LET records == RecordsOf(collections, call.user_id) IN
        /\ ~ret.raised
        /\ Len(ret.docs) <= call.top_k
        /\ Len(ret.docs) <= Len(records)
        /\ \A i \in DOMAIN ret.docs :
              ret.docs[i] = DocWithDistance(records[i], NoDistance)
        /\ Call("collection.get", FALSE) \in Range(log) => ret.docs = <<>>
        /\ Call("collection.get", TRUE) \in Range(log) =>
              Len(ret.docs) = Min(call.top_k, Len(records))

C9_Witness ==
    /\ FellBack
    /\ Len(ret.docs) = 1
    /\ Len(RecordsOf(collections, call.user_id)) = 2

\* C10: the match_score analyze_profile returns is null or a number in
\* [0,100]: a number below 0 gives 0, a number above 100 gives 100, a number
\* in range is kept, and a non-numeric value (string, boolean, list, object,
\* missing) gives null.
C10_ScoreNormalized ==
    (Finished("analyze_profile") /\ ~ret.raised) =>
        LET v == _extract_structured_from_model(loc.analysis_text).match_score
            m == ret.result.match_score
        IN /\ m = Null \/ (m.kind = "float" /\ m.num >= 0 /\ m.num <= 100)
           /\ (v.kind \in {"int", "float"} /\ v.num < 0) => m = Value("float", 0)
           /\ (v.kind \in {"int", "float"} /\ v.num > 100) => m = Value("float", 100)
           /\ (v.kind \in {"int", "float"} /\ v.num >= 0 /\ v.num <= 100) =>
                 m = Value("float", v.num)
           /\ ~IsJsonNumber(v) => m = Null

\* the positions of the user's records of a type and section
RecordsOfType(user_id, type, section) ==
    LET records == RecordsOf(collections, user_id) IN
    {i \in DOMAIN records : /\ records[i].metadata.type = type
                            /\ records[i].metadata.section = section}

\* the keys of the rewritten_sections object a finished analysis parsed
RewrittenItems ==
    IF ret.result.rewritten_sections.isdict
    THEN Range(ret.result.rewritten_sections.items) ELSE {}

\* C11: after an analyze_profile call that returns, with a healthy store and
\* embedding service, the user's space holds the call's analysis_request
\* record, its analysis_result record and exactly one rewritten record for
\* each key of the parsed rewritten_sections, whatever the value under the key.
C11_AnalysisPersisted ==
    (Finished("analyze_profile") /\ ~ret.raised /\ HealthyMemory) =>
        LET records == RecordsOf(collections, call.user_id) IN
        /\ \E i \in RecordsOfType(call.user_id, "analysis_request", "") :
              records[i].document = RequestText(call.linkedin_url, call.target_job)
        /\ \E i \in RecordsOfType(call.user_id, "analysis_result", "") :
              records[i].document =
                  ResultText(call.linkedin_url, ret.result.match_score,
                             ret.result.recommendations)
        /\ \A item \in RewrittenItems :
              Cardinality(RecordsOfType(call.user_id, "rewritten", item.key)) = 1

\* a call of l that failed is issued again later in l
Reattempted(l) ==
    \E i, j \in DOMAIN l : i < j /\ ~l[i].ok /\ l[j].call = l[i].call

\* C12: no external call is re-attempted: a call of analyze_profile or
\* chat_agent invokes the profile fetcher and the completion service at most
\* once each, and no step issues again an external call (fetch, completion,
\* embedding, store operation) that failed.
C12_NoReattempt ==
    /\ loc.fetches <= 1
    /\ loc.completions <= 1
    /\ ~Reattempted(log)

\* the steps that save to the memory store
SaveSteps ==
    {"save_request", "save_result", "save_rewritten", "chat_save_user",
     "chat_save_reply"}

\* what the call in flight has fetched and computed for its caller
Visible ==
    <<loc.profile, loc.analysis_text, loc.match_score, loc.recommendations,
      loc.rewritten, loc.assistant_reply, ret, http>>

\* the result of an analysis, from the fetched profile and the text the
\* completion service answered
AnalysisOf(profile, text) ==
    LET parsed == _extract_structured_from_model(text) IN
    Result(profile, text, NormalizeScore(parsed.match_score),
           parsed.recommendations, parsed.rewritten_sections)

\* C13: persistence failures are invisible to the caller: a save step,
\* whatever its outcome, neither ends the call nor changes what the call
\* returns, so analyze_profile returns the result determined by the fetched
\* profile and the completion response alone and chat_agent the reply
\* determined by the completion outcome alone.
C13_SavesInvisible ==
    [][/\ pc \in SaveSteps =>
            /\ Visible' = Visible
            /\ pc' \in SaveSteps \cup {"context", "return"}
       /\ pc = "return" =>
            /\ ~ret'.raised
            /\ http' = StatusOK
            /\ call.op = "analyze_profile" =>
                  ret'.result = AnalysisOf(loc.profile, loc.analysis_text)
            /\ call.op = "chat_agent" => ret'.text = loc.assistant_reply]_vars

\* C13 witness: an analysis whose request save and result save both failed
\* returned the score the completion response carries
C13_Witness ==
    /\ Finished("analyze_profile")
    /\ ~ret.raised
    /\ {"save_request", "save_result"} \subseteq loc.failed
    /\ "extract" \notin loc.failed
    /\ ret.result.match_score = Value("float", 50)
    /\ ret.result = AnalysisOf(loc.profile, loc.analysis_text)

\* the step is a save_interaction call (time passing between two calls leaves
\* the call, its outcome and its external calls as they were)
SaveStep ==
    /\ call'.op = "save_interaction"
    /\ pc' = "idle"
    /\ <<collections, call, ret, log>>' # <<collections, call, ret, log>>

\* C14: the store is append-only under any sequence of save_interaction
\* calls: a save that reports status saved adds exactly one record, under the
\* id it returns, which differs from the id of every record the user's space
\* held, and no save changes or removes an existing record.
C14_AppendOnly ==
    [][SaveStep =>
          LET before == RecordsOf(collections, call'.user_id)
              after  == RecordsOf(collections', call'.user_id)
          IN /\ \A u \in Users \ {call'.user_id} :
                   RecordsOf(collections', u) = RecordsOf(collections, u)
             /\ Len(after) >= Len(before)
             /\ SubSeq(after, 1, Len(before)) = before
             /\ (~ret'.raised /\ ret'.status = "saved") =>
                   /\ Len(after) = Len(before) + 1
                   /\ after[Len(after)].id = ret'.id
                   /\ ret'.id \notin Ids(before)]_vars

\* the step is a call of one of the read operations of the memory API
ReadStep ==
    /\ call'.op \in {"get_recent_memory", "get_relevant_memory", "build_memory_context"}
    /\ pc' = "idle"
    /\ <<collections, call, ret, log>>' # <<collections, call, ret, log>>

\* C15: a partition is created only by a write: get_recent_memory,
\* get_relevant_memory and build_memory_context, called for a user whose
\* partition does not exist, leave the set of existing partitions unchanged.
C15_ReadsCreateNothing ==
    [][(ReadStep /\ ~Exists(collections, call'.user_id)) =>
          DOMAIN collections' = DOMAIN collections]_vars

\* the steps of analyze_profile up to the completion request
EarlySteps == {"scrape", "save_request", "context", "completion"}

\* the user's space holds the analysis_request record of the call
RequestRecorded ==
    LET records == RecordsOf(collections, call.user_id) IN
    \E i \in RecordsOfType(call.user_id, "analysis_request", "") :
        records[i].document = RequestText(call.linkedin_url, call.target_job)

\* C16: when analyze_profile aborts at the completion step (no client, or
\* the completion call failing), the call raises, the analysis_request
\* record step 3 saved stays in the user's space, and the call has written
\* no analysis_result and no rewritten record: up to the abort the call only
\* adds analysis_request records and the abort leaves the store as it is.
C16_AbortKeepsRequestOnly ==
    /\ []((Finished("analyze_profile") /\ "completion" \in loc.failed) =>
            /\ ret.raised
            /\ http = ServerError
            /\ "save_request" \notin loc.failed => RequestRecorded)
    /\ [][(call.op = "analyze_profile" /\ pc \in EarlySteps) =>
            /\ \A u \in Users :
                  LET before == RecordsOf(collections, u)
                      after  == RecordsOf(collections', u)
                  IN /\ Len(after) >= Len(before)
                     /\ SubSeq(after, 1, Len(before)) = before
                     /\ \A i \in (Len(before) + 1)..Len(after) :
                           after[i].metadata.type = "analysis_request"
            /\ pc = "completion" => collections' = collections]_vars

\* C16 witness: a call that saved its request aborted at the completion
\* step, and the request is the only record of the space
C16_Witness ==
    /\ Finished("analyze_profile")
    /\ "completion" \in loc.failed
    /\ "save_request" \notin loc.failed
    /\ RequestRecorded
    /\ Len(RecordsOf(collections, call.user_id)) = 1

====
